---- MODULE Spec2Model ----
(***************************************************************************)
(* A model of nfl_data_py's multi-year fetch / merge / concatenate         *)
(* pipeline (src/nfl_data_py/__init__.py): import_pbp_data, cache_pbp and  *)
(* the importers that abort on the first failed year.                      *)
(*                                                                         *)
(* A table (pandas.DataFrame) is a sequence of rows; a row is a function   *)
(* from column names to cells; a cell is a record [dt, v] of the value's   *)
(* dtype and an integer standing for the value.  Column order is not       *)
(* modelled: a column list is the set of its names.                        *)
(***************************************************************************)
EXTENDS Integers, Sequences, FiniteSets, TLC

\* ------------------------------------------------------------- bounds
MaxYears == 2
MaxRows == 2

\* ------------------------------------------------- program constants
MinYear == 1999
ParticMinYear == 2016

YearDomain == {1998, 2015, 2020}

YearSeqs(S) == UNION {[1..n -> S] : n \in 0..MaxYears}

\* ---------------------------------------------------------- the cells
Int64(n) == [dt |-> "int64", v |-> n]
Float64 == [dt |-> "float64", v |-> 0]
Object == [dt |-> "object", v |-> 0]
Str(n) == [dt |-> "object", v |-> n]
NaN == [dt |-> "nan", v |-> 0]

\* ------------------------------------------------------- table algebra
RECURSIVE Flatten(_)
Flatten(ts) ==
    IF ts = << >> THEN << >> ELSE Head(ts) \o Flatten(Tail(ts))

ColumnsOf(t) == UNION {DOMAIN t[k] : k \in 1..Len(t)}

Pad(row, cs) == [c \in cs |-> IF c \in DOMAIN row THEN row[c] ELSE NaN]

\* pandas.concat(list, ignore_index=True): rows of the frames in list order,
\* columns the union of the frames' columns, absent cells filled with NaN.
concat(ts) ==
    LET flat == Flatten(ts)
        cs == ColumnsOf(flat)
    IN  [k \in 1..Len(flat) |-> Pad(flat[k], cs)]

\* raw['season'] = year
SetSeason(t, year) ==
    [k \in 1..Len(t) |->
        [c \in DOMAIN t[k] \cup {"season"} |->
            IF c = "season" THEN Int64(year) ELSE t[k][c]]]

\* the column pruning of pandas.read_parquet(path, columns=cols)
Prune(t, cols) ==
    IF cols = {} THEN t
    ELSE [k \in 1..Len(t) |-> [c \in cols |-> t[k][c]]]

\* pandas.DataFrame.merge(right, how='left', left_on=lk, right_on=rk): the key
\* columns must exist (KeyError otherwise).
MergeKeysPresent(left, right, lk, rk) ==
    /\ \A k \in 1..Len(lk) : lk[k] \in ColumnsOf(left)
    /\ \A k \in 1..Len(rk) : rk[k] \in ColumnsOf(right)

\* One left row joined to one right row, or to no right row (hit = FALSE).  A
\* key named alike on both sides is one column; any other column the two
\* sides share is kept twice, suffixed _x and _y.
JoinRow(l, r, rcols, lk, rk, hit) ==
    LET same == {lk[k] : k \in {j \in 1..Len(lk) : lk[j] = rk[j]}}
        both == (DOMAIN l \cap rcols) \ same
        lonly == DOMAIN l \ both
        ronly == (rcols \ both) \ same
    IN  [c \in lonly \cup ronly \cup {b \o "_x" : b \in both}
                     \cup {b \o "_y" : b \in both} |->
            IF c \in lonly THEN l[c]
            ELSE IF c \in ronly THEN (IF hit THEN r[c] ELSE NaN)
            ELSE IF \E b \in both : c = b \o "_x"
                 THEN l[CHOOSE b \in both : c = b \o "_x"]
            ELSE IF hit THEN r[CHOOSE b \in both : c = b \o "_y"] ELSE NaN]

merge(left, right, lk, rk) ==
    LET rcols == ColumnsOf(right)
        Hits(l) == SelectSeq(right,
                     LAMBDA r : \A k \in 1..Len(lk) : r[rk[k]] = l[lk[k]])
        Rows(l) ==
            IF Hits(l) = << >> THEN << JoinRow(l, l, rcols, lk, rk, FALSE) >>
            ELSE [j \in 1..Len(Hits(l)) |->
                     JoinRow(l, Hits(l)[j], rcols, lk, rk, TRUE)]
    IN  Flatten([k \in 1..Len(left) |-> Rows(left[k])])

\* a cast of every numeric column
DowncastNumeric(t) ==
    [k \in 1..Len(t) |->
        [c \in DOMAIN t[k] |->
            IF t[k][c].dt \in {"float64", "int64"}
            THEN [t[k][c] EXCEPT !.dt = "float32"]
            ELSE t[k][c]]]

\* plays[cols] = plays[cols].astype(numpy.float32) for the float64 columns
Downcast(t) ==
    [k \in 1..Len(t) |->
        [c \in DOMAIN t[k] |->
            IF t[k][c].dt = "float64" THEN [t[k][c] EXCEPT !.dt = "float32"]
            ELSE t[k][c]]]

\* ------------------------------------------------------ the remote store
\* The per-year files the URLs of the source address.  Every play-by-play
\* file holds MaxRows plays of one game; the participation file of a year
\* lacks the year's last play, so that the left join has an unmatched row.
OldGameId(year) == year * 100

PrimaryCols == {"play_id", "game_id", "old_game_id", "season", "epa"}

play_by_play(year) ==
    [k \in 1..MaxRows |->
        [play_id |-> Int64(k), game_id |-> Str(year),
         old_game_id |-> Str(OldGameId(year)), season |-> Int64(year),
         epa |-> Float64]]

ParticCols == {"play_id", "nflverse_game_id", "old_game_id", "offense_players"}

\* The participation file of a year: the plays of the game but the last one,
\* then the first play of another game of that year
OtherGame(year) == year + 10000
pbp_participation(year) ==
    [k \in 1..MaxRows |->
        IF k < MaxRows
        THEN [play_id |-> Int64(k), nflverse_game_id |-> Str(year),
              old_game_id |-> Str(OldGameId(year)), offense_players |-> Object]
        ELSE [play_id |-> Int64(1), nflverse_game_id |-> Str(OtherGame(year)),
              old_game_id |-> Str(OldGameId(OtherGame(year))),
              offense_players |-> Object]]

\* ------------------------------------------------------------ the state
VARIABLES
    replaced,    \* the cache directory as the cache_pbp call in progress found it
    roster,      \* the rows every roster file of a season holds, less the season
    qbr,         \* the rows of the qbr-<level>-<frequency>.csv file
    player_stats, \* the weekly rows every player_stats_<year>.parquet file holds
    platform,    \* the operating system family appdirs.user_cache_dir runs on
    location,    \* the alt_path the caller passes to every call (NoPath: omitted)
    fs,          \* the local file system: cache directory -> its partitions
    pc,          \* "idle", "loop" (per-year loop), "tasks" (thread pool), "done"
    args,        \* the arguments of the call in progress
    idx,         \* position in years the sequential loop is at
    pbp_data,    \* the list of per-year frames (pbp_data / data in the source)
    fpath,       \* the local variable fpath of import_pbp_data
    futures,     \* thread pool: position -> state of the task submitted for it
    taken,       \* positions whose future the as_completed loop has consumed
    raised,      \* an exception is propagating out of the with-block
    outcome,     \* "none" while running, "table", "None", or the error raised
    result,      \* the table returned
    prim,        \* position -> outcome of its primary fetch
    sec,         \* position -> outcome of its participation fetch
    notices,     \* years a "not available" / "caching failed" notice named
    reads,       \* cache reads issued by the call (isdir, listdir, read_parquet)
    writes       \* cache writes issued by the call (makedirs, remove, to_parquet)

vars == << replaced, roster, qbr, player_stats, platform, location, fs, pc, args, idx, pbp_data, fpath, futures, taken,
           raised, outcome, result, prim, sec, notices, reads, writes >>

NoArgs == [op |-> "none"]
Unset == << >>
\* An entry of the list of frames: None, or the frame loaded for position pos
\* of years.
None == [none |-> TRUE, df |-> << >>, pos |-> 0]
Frame(t, k) == [none |-> FALSE, df |-> t, pos |-> k]
Frames(list) == [k \in 1..Len(list) |-> list[k].df]
Blank(n) == [k \in 1..n |-> "none"]

Min(years) == CHOOSE m \in {years[k] : k \in 1..Len(years)} :
                  \A k \in 1..Len(years) : m <= years[k]

\* if min(years) < minimum: raise ValueError; min() of an empty collection
\* raises ValueError itself
YearsRejectedFirstOnly(years, minimum) ==
    years = << >> \/ years[1] < minimum

YearsRejected(years, minimum) ==
    years = << >> \/ Min(years) < minimum

\* The state every call starts from: nothing fetched, nothing returned.
\* With tasks > 0 the call has submitted that many tasks to a thread pool and
\* allocated one None slot for each: [None]*len(years).
Enter(a, next, out, tasks) ==
    /\ pc = "idle"
    /\ args' = a
    /\ pc' = next
    /\ idx' = 1
    /\ pbp_data' = [k \in 1..tasks |-> None]
    /\ fpath' = Unset
    /\ futures' = [k \in 1..tasks |-> [st |-> "queued", df |-> << >>]]
    /\ taken' = {}
    /\ raised' = FALSE
    /\ outcome' = out
    /\ result' = << >>
    /\ prim' = Blank(Len(a.years))
    /\ sec' = Blank(Len(a.years))
    /\ notices' = << >>
    /\ reads' = 0

\* The caller goes on after the call has returned or raised.
Continue ==
    /\ pc = "done"
    /\ pc' = "idle"
    /\ args' = NoArgs
    /\ idx' = 1
    /\ pbp_data' = << >>
    /\ fpath' = Unset
    /\ futures' = << >>
    /\ taken' = {}
    /\ raised' = FALSE
    /\ outcome' = "none"
    /\ result' = << >>
    /\ prim' = << >>
    /\ sec' = << >>
    /\ notices' = << >>
    /\ reads' = 0
    /\ writes' = 0
    /\ replaced' = << >>
    /\ UNCHANGED << roster, qbr, player_stats, platform, location, fs >>

\* ------------------------------------------------- the cache directories
\* appdirs.user_cache_dir(appname, appauthor): the author is part of the path
\* on Windows only.
user_cache_dir(appname, appauthor) ==
    IF platform = "windows" THEN << appauthor, appname, "Cache" >>
    ELSE << ".cache", appname >>

NoPath == "None"

\* import_pbp_data: dpath
import_dpath(alt_path) ==
    IF alt_path = NoPath
    THEN Append(user_cache_dir("nfl_data_py", "cooper_dff"), "pbp")
    ELSE << alt_path >>

\* cache_pbp: path
cache_path(alt_path) ==
    IF alt_path # NoPath THEN << alt_path >>
    ELSE Append(user_cache_dir("nfl_data_py", "nflverse"), "pbp")

AltPaths == {NoPath, "tmpcache"}

Dirs == {import_dpath(p) : p \in AltPaths} \cup {cache_path(p) : p \in AltPaths}

NoPartition == [isdir |-> FALSE, files |-> << >>]
NoDir == [isdir |-> FALSE, season |-> [y \in YearDomain |-> NoPartition]]

\* --------------------------------------------------------- import_pbp_data
\* columns='epa', a str instead of a list: the comprehension over columns
\* makes it the list of its characters
Characters == {"e", "p", "a"}

ColumnChoices == SUBSET {"game_id", "season", "epa"} \cup {Characters}

\* pandas.read_parquet raises when asked for a column the file does not have
Readable(t, columns) == columns \subseteq ColumnsOf(t)
SecOutcomes == {"ok", "http", "other"}

\* columns = [x for x in columns if x not in ['season']], and the two merge
\* keys the function adds when participation is wanted
EffectiveColumns(columns, include_participation) ==
    LET cols == columns \ {"season"}
    IN  IF include_participation /\ cols # {}
        THEN cols \cup {"play_id", "old_game_id"}
        ELSE cols

Failed == [ok |-> FALSE, raw |-> << >>]
Loaded(t) == [ok |-> TRUE, raw |-> t]

\* The participation step of one year, given the outcome s of its fetch:
\* an HTTPError skips the merge, any other exception (a KeyError of the merge
\* included) reaches the outer handler and drops the year.
MergeParticipation(raw, year, s) ==
    LET partic == pbp_participation(year)
        lk == << "play_id", "game_id" >>
        rk == << "play_id", "nflverse_game_id" >>
    IN  CASE s = "http" -> Loaded(raw)
          [] s = "ok" -> IF MergeKeysPresent(raw, partic, lk, rk)
                         THEN Loaded(merge(raw, partic, lk, rk))
                         ELSE Failed
          [] OTHER -> Failed

\* The body of the try of one year, once data has been read
LoadYear(data, year, a, s) ==
    LET raw == SetSeason(data, year)
    IN  IF a.include_participation /\ ~a.cache
        THEN MergeParticipation(raw, year, s)
        ELSE Loaded(raw)

\* a call that takes the thread pool whenever thread_requests is set
import_pbp_data_pool_first(years, columns, include_participation, downcast, cache, alt_path, thread_requests) ==
    LET a == [op |-> "import_pbp_data", years |-> years, columns |-> columns,
              include_participation |-> include_participation,
              downcast |-> downcast, cache |-> cache, alt_path |-> alt_path,
              thread_requests |-> thread_requests]
    IN  /\ IF YearsRejected(years, MinYear)
           THEN Enter(a, "done", "ValueError", 0)
           ELSE IF thread_requests
           THEN Enter(a, "tasks", "none", Len(years))
           ELSE Enter(a, "loop", "none", 0)
        /\ writes' = 0
        /\ UNCHANGED << replaced, roster, qbr, player_stats, platform, location, fs >>

\* The call: validation, then the thread pool or the loop
import_pbp_data(years, columns, include_participation, downcast, cache, alt_path, thread_requests) ==
    LET a == [op |-> "import_pbp_data", years |-> years, columns |-> columns,
              include_participation |-> include_participation,
              downcast |-> downcast, cache |-> cache, alt_path |-> alt_path,
              thread_requests |-> thread_requests]
    IN  /\ IF YearsRejected(years, MinYear)
           THEN Enter(a, "done", "ValueError", 0)
           ELSE IF thread_requests /\ ~cache
           THEN Enter(a, "tasks", "none", Len(years))
           ELSE Enter(a, "loop", "none", 0)
        /\ writes' = 0
        /\ UNCHANGED << replaced, roster, qbr, player_stats, platform, location, fs >>

\* One iteration of the loop over years, data read from the network
import_pbp_data_fetch ==
    /\ pc = "loop" /\ args.op = "import_pbp_data" /\ ~args.cache
    /\ idx <= Len(args.years)
    /\ \E p \in {"ok", "fail"}, s \in SecOutcomes :
        LET year == args.years[idx]
            columns == EffectiveColumns(args.columns, args.include_participation)
            read == IF Readable(play_by_play(year), columns) THEN p ELSE "fail"
            asked == read = "ok" /\ args.include_participation
            load == LoadYear(Prune(play_by_play(year), columns), year, args, s)
        IN  /\ ~asked => s = "ok"
            /\ prim' = [prim EXCEPT ![idx] = read]
            /\ sec' = [sec EXCEPT ![idx] = IF asked THEN s ELSE "none"]
            /\ IF read = "ok" /\ load.ok
               THEN /\ pbp_data' = Append(pbp_data, Frame(load.raw, idx))
                    /\ notices' = notices
               ELSE /\ pbp_data' = pbp_data
                    /\ notices' = Append(notices, year)
    /\ idx' = idx + 1
    /\ UNCHANGED << replaced, roster, qbr, player_stats, platform, location, fs, pc, args, fpath, futures, taken, raised,
                    outcome, result, reads, writes >>

\* A task of the thread pool runs: pandas.read_parquet(path, columns)
import_pbp_data_task(k) ==
    /\ pc = "tasks" /\ args.op = "import_pbp_data"
    /\ futures[k].st = "queued"
    /\ \E p \in {"ok", "fail"} :
        LET columns == EffectiveColumns(args.columns, args.include_participation)
            data == Prune(play_by_play(args.years[k]), columns)
            read == IF Readable(play_by_play(args.years[k]), columns) THEN p
                    ELSE "fail"
        IN  /\ prim' = [prim EXCEPT ![k] = read]
            /\ futures' = [futures EXCEPT ![k] =
                              IF read = "ok" THEN [st |-> "ok", df |-> data]
                              ELSE [st |-> "fail", df |-> << >>]]
    /\ UNCHANGED << replaced, roster, qbr, player_stats, platform, location, fs, pc, args, idx, pbp_data, fpath, taken,
                    raised, outcome, result, sec, notices, reads, writes >>

\* for future in as_completed(futures_map):
\*     pbp_data[futures_map[future]] = future.result()
SlotForArrival(k) == Cardinality(taken) + 1

\* a futures_map keyed by the year of the task: the first position of that year
SlotForYear(k) ==
    CHOOSE j \in 1..Len(args.years) :
        /\ args.years[j] = args.years[k]
        /\ \A i \in 1..(j - 1) : args.years[i] # args.years[k]

SlotFor(k) == k

import_pbp_data_collect(k) ==
    /\ pc = "tasks" /\ args.op = "import_pbp_data"
    /\ ~raised /\ k \notin taken
    /\ futures[k].st # "queued"
    /\ taken' = taken \cup {k}
    /\ IF futures[k].st = "ok"
       THEN /\ pbp_data' = [pbp_data EXCEPT ![SlotFor(k)] = Frame(futures[k].df, k)]
            /\ raised' = FALSE
       ELSE /\ pbp_data' = pbp_data
            /\ raised' = TRUE
    /\ UNCHANGED << replaced, roster, qbr, player_stats, platform, location, fs, pc, args, idx, fpath, futures, outcome,
                    result, prim, sec, notices, reads, writes >>

\* a pool that is left at once, without waiting for the tasks still queued
import_pbp_data_raise_at_once ==
    /\ pc = "tasks" /\ args.op = "import_pbp_data"
    /\ raised
    /\ pc' = "done"
    /\ outcome' = "FetchError"
    /\ UNCHANGED << replaced, roster, qbr, player_stats, platform, location, fs, args, idx, pbp_data, fpath, futures, taken,
                    raised, result, prim, sec, notices, reads, writes >>

\* The exception of future.result() leaves the with-block once the pool has
\* shut down, which waits for every task submitted.
import_pbp_data_raise ==
    /\ pc = "tasks" /\ args.op = "import_pbp_data"
    /\ raised
    /\ \A k \in 1..Len(futures) : futures[k].st # "queued"
    /\ pc' = "done"
    /\ outcome' = "FetchError"
    /\ UNCHANGED << replaced, roster, qbr, player_stats, platform, location, fs, args, idx, pbp_data, fpath, futures, taken,
                    raised, result, prim, sec, notices, reads, writes >>

\* The end of the function: empty frame, or concat and downcast
Plays(frames, downcast) ==
    IF frames = << >> THEN << >>
    ELSE IF downcast THEN Downcast(concat(frames))
    ELSE concat(frames)

import_pbp_data_return ==
    /\ args.op = "import_pbp_data"
    /\ \/ pc = "loop" /\ idx > Len(args.years)
       \/ pc = "tasks" /\ ~raised /\ taken = 1..Len(args.years)
    /\ pc' = "done"
    /\ outcome' = "table"
    /\ result' = Plays(Frames(pbp_data), args.downcast)
    /\ UNCHANGED << replaced, roster, qbr, player_stats, platform, location, fs, args, idx, pbp_data, fpath, futures, taken,
                    raised, prim, sec, notices, reads, writes >>

\* One iteration of the loop over years, data read from the cache:
\*   - no directory season=<year> under dpath: ValueError (cache miss);
\*   - fpath is assigned only if the directory lists a parquet file, and keeps
\*     the value of the iteration before otherwise (unbound in the first);
\*   - with several files, os.listdir's order decides which one is last.
FileAt(f) == fs[f[1]].season[f[2]].files[f[3]]

import_pbp_data_cached ==
    /\ pc = "loop" /\ args.op = "import_pbp_data" /\ args.cache
    /\ idx <= Len(args.years)
    /\ LET year == args.years[idx]
           dpath == import_dpath(args.alt_path)
           part == fs[dpath].season[year]
           columns == EffectiveColumns(args.columns, args.include_participation)
           found == IF part.files = << >> THEN {fpath}
                    ELSE {<< dpath, year, j >> : j \in 1..Len(part.files)}
       IN  /\ reads' = reads + 1
           /\ IF ~part.isdir
              THEN /\ pc' = "done" /\ outcome' = "CacheMiss"
                   /\ UNCHANGED << idx, pbp_data, fpath, notices >>
              ELSE \E f \in found :
                   /\ fpath' = f
                   /\ IF f = Unset
                      THEN /\ pc' = "done" /\ outcome' = "UnboundLocalError"
                           /\ UNCHANGED << idx, pbp_data, notices >>
                      ELSE /\ pc' = pc /\ outcome' = outcome
                           /\ idx' = idx + 1
                           /\ IF columns \subseteq ColumnsOf(FileAt(f))
                              THEN /\ pbp_data' = Append(pbp_data,
                                        Frame(LoadYear(Prune(FileAt(f), columns),
                                                       year, args, "ok").raw, idx))
                                   /\ notices' = notices
                              ELSE /\ pbp_data' = pbp_data
                                   /\ notices' = Append(notices, year)
    /\ UNCHANGED << replaced, roster, qbr, player_stats, platform, location, fs, args, futures, taken, raised, result,
                    prim, sec, writes >>

\* --------------------------------------------------------------- cache_pbp
\* The call: validation, os.makedirs(path), and the removal of the parquet
\* files of every existing partition of a requested year.
Requested(years) == {years[k] : k \in 1..Len(years)}

ClearedNothing(dir, years) == [dir EXCEPT !.isdir = TRUE]

Cleared(dir, years) ==
    [isdir |-> TRUE,
     season |-> [y \in YearDomain |->
                   IF y \in Requested(years) /\ dir.season[y].isdir
                   THEN [isdir |-> TRUE, files |-> << >>]
                   ELSE dir.season[y]]]

Removals(dir, years) ==
    LET hit == {y \in Requested(years) : dir.season[y].files # << >>}
        count[S \in SUBSET hit] ==
            IF S = {} THEN 0
            ELSE LET y == CHOOSE z \in S : TRUE
                 IN  Len(dir.season[y].files) + count[S \ {y}]
    IN  count[hit]

cache_pbp(years, downcast, alt_path) ==
    LET a == [op |-> "cache_pbp", years |-> years, downcast |-> downcast,
              alt_path |-> alt_path]
        path == cache_path(alt_path)
    IN  IF YearsRejected(years, MinYear)
        THEN /\ Enter(a, "done", "ValueError", 0)
             /\ writes' = 0
             /\ UNCHANGED << replaced, roster, qbr, player_stats, platform, location, fs >>
        ELSE /\ Enter(a, "loop", "none", 0)
             /\ fs' = [fs EXCEPT ![path] = Cleared(fs[path], years)]
             /\ writes' = (IF fs[path].isdir THEN 0 ELSE 1)
                              + Removals(fs[path], years)
             /\ replaced' = fs[path]
             /\ UNCHANGED << roster, qbr, player_stats, platform, location >>

\* One iteration of the loop over years: fetch, tag, merge participation
\* from 2016 on, downcast, write one file into the partition of the year.
\* Any exception (either fetch failing) is turned into a warning.
Partitioned(t) ==
    [k \in 1..Len(t) |-> [c \in DOMAIN t[k] \ {"season"} |-> t[k][c]]]

\* cache_pbp merging on play_id alone
CachedFrameByPlay(year, downcast) ==
    LET raw == SetSeason(play_by_play(year), year)
        full == IF year >= ParticMinYear
                THEN merge(raw, pbp_participation(year), << "play_id" >>, << "play_id" >>)
                ELSE raw
    IN  IF downcast THEN Downcast(full) ELSE full

CachedFrame(year, downcast) ==
    LET raw == SetSeason(play_by_play(year), year)
        keys == << "play_id", "old_game_id" >>
        full == IF year >= ParticMinYear
                THEN merge(raw, pbp_participation(year), keys, keys)
                ELSE raw
    IN  IF downcast THEN Downcast(full) ELSE full

to_parquet(dir, year, t) ==
    [dir EXCEPT !.season[year] =
        [isdir |-> TRUE, files |-> Append(@.files, Partitioned(t))]]

cache_pbp_year ==
    /\ pc = "loop" /\ args.op = "cache_pbp"
    /\ idx <= Len(args.years)
    /\ \E p \in {"ok", "fail"}, s \in {"ok", "fail"} :
        LET year == args.years[idx]
            path == cache_path(args.alt_path)
            asked == p = "ok" /\ year >= ParticMinYear
        IN  /\ ~asked => s = "ok"
            /\ prim' = [prim EXCEPT ![idx] = p]
            /\ sec' = [sec EXCEPT ![idx] = IF asked THEN s ELSE "none"]
            /\ IF p = "ok" /\ s = "ok"
               THEN /\ fs' = [fs EXCEPT ![path] =
                                to_parquet(@, year, CachedFrame(year, args.downcast))]
                    /\ writes' = writes + 1
                    /\ notices' = notices
               ELSE /\ fs' = fs
                    /\ writes' = writes
                    /\ notices' = Append(notices, year)
    /\ idx' = idx + 1
    /\ UNCHANGED << replaced, roster, qbr, player_stats, platform, location, pc, args, pbp_data, fpath, futures, taken,
                    raised, outcome, result, reads >>

cache_pbp_return ==
    /\ pc = "loop" /\ args.op = "cache_pbp"
    /\ idx > Len(args.years)
    /\ pc' = "done"
    /\ outcome' = "None"
    /\ UNCHANGED << replaced, roster, qbr, player_stats, platform, location, fs, args, idx, pbp_data, fpath, futures, taken,
                    raised, result, prim, sec, notices, reads, writes >>

\* ------------------------------------------ the importers that fail hard
\* import_weekly_data, import_ftn_data, import_depth_charts, import_injuries
\* and import_snap_counts: pandas.concat over one read_parquet per year, with
\* no handler around the reads.
FtnMinYear == 2022
DepthChartsMinYear == 2001
InjuriesMinYear == 2009
SnapCountsMinYear == 2012

DatasetCols == {"season", "week", "stat"}
DatasetColumnChoices == {{}, {"stat"}, {"season", "stat"}}
FtnColumnChoices ==
    {[given |-> FALSE, names |-> {}]}
        \cup {[given |-> TRUE, names |-> c] : c \in DatasetColumnChoices}

\* the file url.format(year) addresses
dataset_file(year) ==
    [k \in 1..MaxRows |->
        [season |-> Int64(year), week |-> Int64(k), stat |-> Float64]]

Threaded == {"import_weekly_data", "import_ftn_data"}

\* if len(years) > 0: if min(years) < minimum: raise ValueError;
\* pandas.concat of an empty list raises ValueError
YearsRejectedUnlessEmpty(years, minimum) ==
    IF Len(years) > 0 THEN Min(years) < minimum ELSE TRUE

ImportCall(a, rejected) ==
    /\ IF rejected
       THEN Enter(a, "done", "ValueError", 0)
       ELSE IF a.thread_requests
       THEN Enter(a, "tasks", "none", Len(a.years))
       ELSE Enter(a, "loop", "none", 0)
    /\ writes' = 0
    /\ UNCHANGED << replaced, roster, qbr, player_stats, platform, location, fs >>

import_weekly_data(years, columns, downcast, thread_requests) ==
    ImportCall([op |-> "import_weekly_data", years |-> years,
                columns |-> columns, downcast |-> downcast,
                thread_requests |-> thread_requests],
               YearsRejected(years, MinYear))

\* columns is None (given = FALSE) or a list of names, the empty one included
import_ftn_data(years, columns, downcast, thread_requests) ==
    ImportCall([op |-> "import_ftn_data", years |-> years,
                columns |-> columns.names, columns_given |-> columns.given,
                downcast |-> downcast, thread_requests |-> thread_requests],
               YearsRejected(years, FtnMinYear))

import_depth_charts(years) ==
    ImportCall([op |-> "import_depth_charts", years |-> years, columns |-> {},
                downcast |-> FALSE, thread_requests |-> FALSE],
               YearsRejectedUnlessEmpty(years, DepthChartsMinYear))

import_injuries(years) ==
    ImportCall([op |-> "import_injuries", years |-> years, columns |-> {},
                downcast |-> FALSE, thread_requests |-> FALSE],
               YearsRejectedUnlessEmpty(years, InjuriesMinYear))

import_snap_counts(years) ==
    ImportCall([op |-> "import_snap_counts", years |-> years, columns |-> {},
                downcast |-> FALSE, thread_requests |-> FALSE],
               YearsRejectedUnlessEmpty(years, SnapCountsMinYear))

HardOps == {"import_weekly_data", "import_ftn_data", "import_depth_charts",
            "import_injuries", "import_snap_counts"}

\* The columns the read of one year asks for: the threaded branches and
\* import_ftn_data pass columns, the comprehension of import_weekly_data reads
\* every column.
ReadColumns(a) ==
    IF a.op = "import_weekly_data" /\ ~a.thread_requests THEN {} ELSE a.columns

\* pandas.read_parquet(url.format(x), columns=columns) of the comprehension of
\* import_ftn_data: an empty list reads no column; the other reads are given
\* columns if columns else None
NoColumns(t) == [k \in 1..Len(t) |-> << >>]

ReadSequential(a, year) ==
    IF a.op = "import_ftn_data" /\ a.columns_given /\ a.columns = {}
    THEN NoColumns(dataset_file(year))
    ELSE Prune(dataset_file(year), ReadColumns(a))

\* One read of the list comprehension: its exception ends the call
import_fetch ==
    /\ pc = "loop" /\ args.op \in HardOps
    /\ idx <= Len(args.years)
    /\ \E p \in {"ok", "fail"} :
        /\ prim' = [prim EXCEPT ![idx] = p]
        /\ IF p = "ok"
           THEN /\ pbp_data' = Append(pbp_data,
                      Frame(ReadSequential(args, args.years[idx]), idx))
                /\ idx' = idx + 1
                /\ UNCHANGED << pc, outcome >>
           ELSE /\ pc' = "done"
                /\ outcome' = "FetchError"
                /\ UNCHANGED << pbp_data, idx >>
    /\ UNCHANGED << replaced, roster, qbr, player_stats, platform, location, fs, args, fpath, futures, taken,
                    raised, result, sec, notices, reads, writes >>

import_task(k) ==
    /\ pc = "tasks" /\ args.op \in HardOps
    /\ futures[k].st = "queued"
    /\ \E p \in {"ok", "fail"} :
        /\ prim' = [prim EXCEPT ![k] = p]
        /\ futures' = [futures EXCEPT ![k] =
              IF p = "ok"
              THEN [st |-> "ok",
                    df |-> Prune(dataset_file(args.years[k]), ReadColumns(args))]
              ELSE [st |-> "fail", df |-> << >>]]
    /\ UNCHANGED << replaced, roster, qbr, player_stats, platform, location, fs, pc, args, idx, pbp_data, fpath,
                    taken, raised, outcome, result, sec, notices, reads, writes >>

\* a collector that swallows the exception of future.result()
import_collect_soft(k) ==
    /\ pc = "tasks" /\ args.op \in HardOps
    /\ ~raised /\ k \notin taken
    /\ futures[k].st # "queued"
    /\ taken' = taken \cup {k}
    /\ raised' = FALSE
    /\ pbp_data' = IF futures[k].st = "ok"
                   THEN [pbp_data EXCEPT ![SlotFor(k)] = Frame(futures[k].df, k)]
                   ELSE [pbp_data EXCEPT ![SlotFor(k)] = Frame(<< >>, k)]
    /\ UNCHANGED << replaced, roster, qbr, player_stats, platform, location, fs, pc, args, idx, fpath, futures,
                    outcome, result, prim, sec, notices, reads, writes >>

\* data[futures_map[future]] = future.result()
import_collect(k) ==
    /\ pc = "tasks" /\ args.op \in HardOps
    /\ ~raised /\ k \notin taken
    /\ futures[k].st # "queued"
    /\ taken' = taken \cup {k}
    /\ IF futures[k].st = "ok"
       THEN /\ pbp_data' = [pbp_data EXCEPT ![SlotFor(k)] = Frame(futures[k].df, k)]
            /\ raised' = FALSE
       ELSE /\ pbp_data' = pbp_data
            /\ raised' = TRUE
    /\ UNCHANGED << replaced, roster, qbr, player_stats, platform, location, fs, pc, args, idx, fpath, futures,
                    outcome, result, prim, sec, notices, reads, writes >>

import_raise ==
    /\ pc = "tasks" /\ args.op \in HardOps
    /\ raised
    /\ \A k \in 1..Len(futures) : futures[k].st # "queued"
    /\ pc' = "done"
    /\ outcome' = "FetchError"
    /\ UNCHANGED << replaced, roster, qbr, player_stats, platform, location, fs, args, idx, pbp_data, fpath,
                    futures, taken, raised, result, prim, sec, notices, reads,
                    writes >>

\* pandas.concat(data); import_weekly_data: data[columns]; downcast
Imported(a, frames) ==
    LET all == concat(frames)
        cut == IF a.op = "import_weekly_data" THEN Prune(all, a.columns) ELSE all
    IN  IF a.downcast THEN Downcast(cut) ELSE cut

import_return ==
    /\ args.op \in HardOps
    /\ \/ pc = "loop" /\ idx > Len(args.years)
       \/ pc = "tasks" /\ ~raised /\ taken = 1..Len(args.years)
    /\ pc' = "done"
    /\ IF pbp_data = << >>
       THEN outcome' = "ValueError" /\ result' = result
       ELSE outcome' = "table" /\ result' = Imported(args, Frames(pbp_data))
    /\ UNCHANGED << replaced, roster, qbr, player_stats, platform, location, fs, args, idx, pbp_data, fpath,
                    futures, taken, raised, prim, sec, notices, reads, writes >>

\* ---------------------------------------------------- import_seasonal_data
\* The weekly player rows.  Every file player_stats_<year>.parquet holds the
\* rows of player_stats with season = <year>.  A row has the player's targets
\* and pass attempts of one week; postseason rows are of a later week.
MaxWeekRows == 2

PlayerIds == << "p1", "p2" >>
Teams == {"A", "B"}
SeasonTypes == << "POST", "REG" >>
ValidTypes == {"REG", "ALL", "POST"}

WeekOf(season_type) == IF season_type = "REG" THEN 1 ELSE 19

\* the missing value of a string column
NA == "nan"
\* the (recent_team, season_type) of a row; either may be missing
TeamAndType ==
    (Teams \X {SeasonTypes[i] : i \in 1..Len(SeasonTypes)})
        \cup {<< NA, "REG" >>, << "A", NA >>}
\* the (targets, attempts) of a row: a player without either, a receiver, a passer
StatLines == {<< 0, 0 >>, << 20, 0 >>, << 0, 100 >>}
WeeklyRows ==
    {[player_id |-> p, recent_team |-> tt[1], season_type |-> tt[2],
      week |-> WeekOf(tt[2]), targets |-> sl[1], attempts |-> sl[2]] :
        p \in {PlayerIds[i] : i \in 1..Len(PlayerIds)}, tt \in TeamAndType,
        sl \in StatLines}

WeeklyTables == UNION {[1..n -> WeeklyRows] : n \in 0..MaxWeekRows}

player_stats_file(year) ==
    [k \in 1..Len(player_stats) |->
        [player_id |-> player_stats[k].player_id, season |-> year,
         recent_team |-> player_stats[k].recent_team,
         season_type |-> player_stats[k].season_type,
         week |-> player_stats[k].week,
         targets |-> player_stats[k].targets,
         attempts |-> player_stats[k].attempts]]

\* float division of pandas: x/0 is inf, 0/0 is NaN, no exception
NaNValue == [kind |-> "nan", n |-> 0, d |-> 1]
InfValue == [kind |-> "inf", n |-> 0, d |-> 1]
Quotient(n, d) ==
    IF d = 0 THEN (IF n = 0 THEN NaNValue ELSE InfValue)
    ELSE [kind |-> "num", n |-> n, d |-> d]

RECURSIVE SumOf(_, _)
SumOf(t, col) == IF t = << >> THEN 0 ELSE Head(t)[col] + SumOf(Tail(t), col)

RECURSIVE Ascending(_)
Ascending(S) ==
    IF S = {} THEN << >>
    ELSE LET m == CHOOSE x \in S : \A y \in S : x <= y
         IN  << m >> \o Ascending(S \ {m})

\* data = data[(data['season_type'] == s_type)] unless s_type is 'ALL'
SeasonTypeFilter(data, s_type) ==
    IF s_type # "ALL" THEN SelectSeq(data, LAMBDA r : r.season_type = s_type)
    ELSE data

\* pgstats with the week left out of the group key
pgstats_by_season(data, team, season, week) ==
    IF team = NA THEN {}
    ELSE {SumOf(SelectSeq(data, LAMBDA r : r.recent_team = team /\ r.season = season),
                "attempts")}

\* pgstats: the attempts of all players of a team in a (season, week), as the
\* set of the atts values of the group; groupby keeps no group for a missing key
pgstats(data, team, season, week) ==
    IF team = NA THEN {}
    ELSE {SumOf(SelectSeq(data, LAMBDA r : /\ r.recent_team = team
                                            /\ r.season = season /\ r.week = week),
                "attempts")}

\* .fillna(0) over the one value a left merge brings, missing when s is empty
fillna(s, value) == IF s = {} THEN value ELSE CHOOSE x \in s : TRUE

\* all_stats: every weekly row with the attempts of its team-week
all_stats(data) ==
    [k \in 1..Len(data) |->
        [player_id |-> data[k].player_id, season |-> data[k].season,
         targets |-> data[k].targets,
         atts |-> fillna(pgstats(data, data[k].recent_team, data[k].season,
                                 data[k].week), 0)]]

\* season_stats: all_stats summed by (player_id, season), and the ratio
season_stats(data, player, season) ==
    LET mine == SelectSeq(all_stats(data),
                          LAMBDA r : r.player_id = player /\ r.season = season)
    IN  [targets |-> SumOf(mine, "targets"), atts |-> SumOf(mine, "atts"),
         tgt_sh |-> Quotient(SumOf(mine, "targets"), SumOf(mine, "atts"))]

\* szn: data summed by (player_id, season, season_type), in the sorted order
\* of groupby, left-merged with the games count and with season_stats, both
\* keyed by (player_id, season)
GroupKeys(data) ==
    LET seasons == Ascending({data[k].season : k \in 1..Len(data)})
    IN  Flatten([i \in 1..Len(PlayerIds) |->
           Flatten([j \in 1..Len(seasons) |->
              [k \in 1..Len(SeasonTypes) |->
                  [player_id |-> PlayerIds[i], season |-> seasons[j],
                   season_type |-> SeasonTypes[k]]]])])

Group(data, key) ==
    SelectSeq(data, LAMBDA r : /\ r.player_id = key.player_id
                                 /\ r.season = key.season
                                 /\ r.season_type = key.season_type)

\* count() of season_type by (player_id, season) over every row
GamesOfAllRows(data, player, season) ==
    Len(SelectSeq(data, LAMBDA r : r.player_id = player /\ r.season = season))

\* count() of season_type by (player_id, season): the rows with a season_type
Games(data, player, season) ==
    Len(SelectSeq(data, LAMBDA r : /\ r.player_id = player /\ r.season = season
                                    /\ r.season_type # NA))

szn(data) ==
    LET keys == SelectSeq(GroupKeys(data), LAMBDA key : Group(data, key) # << >>)
    IN  [k \in 1..Len(keys) |->
           [player_id |-> keys[k].player_id, season |-> keys[k].season,
            season_type |-> keys[k].season_type,
            targets |-> SumOf(Group(data, keys[k]), "targets"),
            attempts |-> SumOf(Group(data, keys[k]), "attempts"),
            games |-> Games(data, keys[k].player_id, keys[k].season),
            tgt_sh |-> season_stats(data, keys[k].player_id, keys[k].season).tgt_sh]]

\* The call, as one step: validation, one read per year (the first failing
\* read ends the call), the rollup of the concatenated rows.
import_seasonal_data(years, s_type) ==
    LET a == [op |-> "import_seasonal_data", years |-> years, s_type |-> s_type]
        rejected == YearsRejected(years, MinYear) \/ s_type \notin ValidTypes
        weekly == Flatten([k \in 1..Len(years) |-> player_stats_file(years[k])])
    IN  /\ pc = "idle"
        /\ pc' = "done"
        /\ args' = a
        /\ \E failed \in 0..Len(years) :
              /\ rejected => failed = 0
              /\ prim' = [k \in 1..Len(years) |->
                            IF rejected THEN "none"
                            ELSE IF failed = 0 \/ k < failed THEN "ok"
                            ELSE IF k = failed THEN "fail" ELSE "none"]
              /\ outcome' = IF rejected THEN "ValueError"
                            ELSE IF failed # 0 THEN "FetchError" ELSE "table"
              /\ result' = IF rejected \/ failed # 0 THEN << >>
                           ELSE szn(SeasonTypeFilter(weekly, s_type))
        /\ sec' = Blank(Len(years))
        /\ UNCHANGED << replaced, roster, qbr, player_stats, platform, location, fs, idx, pbp_data, fpath,
                        futures, taken, raised, notices, reads, writes >>

\* ----------------------------------------------------------- rosters
RosterMinYear == 1999
MaxRosterRows == 2
SeasonStartMonth == 9
SeasonStartDay == 1
BirthYear == 1995

\* A date as datetime64 holds it
Date(y, m, d) == [year |-> y, month |-> m, day |-> d]
BirthDates == {Date(BirthYear, m, d) : m \in {8, 9, 10}, d \in {1, 2}}
\* the missing value of a string column
NoId == "nan"

\* The players of the roster files: every roster_<year>.parquet and every
\* roster_weekly_<year>.parquet holds one row per entry of roster
RosterRows == [gsis_id : {"p1", NoId}, birth_date : BirthDates]
RosterTables == UNION {[1..n -> RosterRows] : n \in 1..MaxRosterRows}

\* the file uri.format(y) addresses
roster_file(y) ==
    [k \in 1..Len(roster) |->
        [season |-> y, gsis_id |-> roster[k].gsis_id, full_name |-> "name",
         birth_date |-> roster[k].birth_date, position |-> "QB",
         team |-> "A", week |-> 1]]

\* rosters.rename(columns={'gsis_id': 'player_id', 'full_name': 'player_name'})
Renamed(row) ==
    [season |-> row.season, player_id |-> row.gsis_id,
     player_name |-> row.full_name, birth_date |-> row.birth_date,
     position |-> row.position, team |-> row.team, week |-> row.week]

RosterColumns ==
    {"season", "player_id", "player_name", "birth_date", "position", "team", "week"}

\* rosters[columns]
Select(rows, names) == [k \in 1..Len(rows) |-> [c \in names |-> rows[k][c]]]

\* the columns argument: None, or a list of names
RosterColumnChoices ==
    {[given |-> FALSE, names |-> {}], [given |-> TRUE, names |-> {}]}
        \cup {[given |-> TRUE, names |-> c] :
                c \in {{"position"}, {"player_id"}, {"player_id", "birth_date"},
                       {"player_id", "season", "birth_date"},
                       {"season", "week", "team"},
                       {"season", "week", "team", "birth_date"}}}

RostersRejected(years, columns) ==
    YearsRejected(years, RosterMinYear) \/ (columns.given /\ columns.names = {})

\* What __import_rosters hands back once every file was read: the columns and
\* the rows of the table, or the error the column selection raises
import_rosters(years, columns) ==
    LET read == Flatten([k \in 1..Len(years) |->
                    [j \in 1..Len(roster) |-> Renamed(roster_file(years[k])[j])]])
    IN  IF ~columns.given
        THEN [error |-> "none", cols |-> RosterColumns, rows |-> read]
        ELSE IF ~(columns.names \subseteq RosterColumns)
        THEN [error |-> "KeyError", cols |-> {}, rows |-> << >>]
        ELSE [error |-> "none", cols |-> columns.names,
              rows |-> Select(read, columns.names)]

\* szn_start.dt.year - birth_date.dt.year
\*     + numpy.where(szn_start.dt.month > birth_date.dt.month, 0, -1)
SeasonAge(season, birth_date) ==
    season - birth_date.year
        + (IF SeasonStartMonth > birth_date.month THEN 0 ELSE -1)

WithColumn(row, name, value) ==
    [c \in DOMAIN row \cup {name} |-> IF c = name THEN value ELSE row[c]]

\* import_seasonal_rosters after __import_rosters returned r
seasonal_rosters(r) ==
    IF r.error # "none" THEN r
    ELSE IF "birth_date" \in r.cols /\ "season" \notin r.cols
    THEN [error |-> "AttributeError", cols |-> {}, rows |-> << >>]
    ELSE IF "player_id" \notin r.cols
    THEN [error |-> "KeyError", cols |-> {}, rows |-> << >>]
    ELSE LET aged == IF "birth_date" \in r.cols
                     THEN [k \in 1..Len(r.rows) |->
                             WithColumn(r.rows[k], "age",
                                 SeasonAge(r.rows[k].season, r.rows[k].birth_date))]
                     ELSE r.rows
             Known(row) == row.player_id # NoId
         IN  [error |-> "none",
              cols |-> IF "birth_date" \in r.cols THEN r.cols \cup {"age"} ELSE r.cols,
              rows |-> SelectSeq(aged, Known)]

\* The call as one step: validation, one read per year (the first failing
\* read ends the call), the post-processing
RosterCall(a, years, columns, returned) ==
    LET rejected == RostersRejected(years, columns)
    IN  /\ pc = "idle"
        /\ pc' = "done"
        /\ args' = a
        /\ \E failed \in 0..Len(years), games \in {"ok", "fail"} :
              /\ rejected => failed = 0
              /\ (rejected \/ failed # 0 \/ a.op = "import_seasonal_rosters")
                    => games = "ok"
              /\ prim' = [k \in 1..Len(years) |->
                            IF rejected THEN "none"
                            ELSE IF failed = 0 \/ k < failed THEN "ok"
                            ELSE IF k = failed THEN "fail" ELSE "none"]
              /\ sec' = IF a.op = "import_weekly_rosters" /\ ~rejected /\ failed = 0
                        THEN << games >> ELSE << >>
              /\ LET r == returned
                 IN  /\ outcome' = IF rejected THEN "ValueError"
                                   ELSE IF failed # 0 \/ games = "fail" THEN "FetchError"
                                   ELSE IF r.error # "none" THEN r.error ELSE "table"
                     /\ result' = IF rejected \/ failed # 0 \/ games = "fail"
                                     \/ r.error # "none"
                                  THEN << >> ELSE r.rows
        /\ UNCHANGED << replaced, roster, qbr, player_stats, platform, location, fs, idx, pbp_data, fpath,
                        futures, taken, raised, notices, reads, writes >>

import_seasonal_rosters(years, columns) ==
    RosterCall([op |-> "import_seasonal_rosters", years |-> years,
                columns |-> columns], years, columns,
               seasonal_rosters(import_rosters(years, columns)))

\* games.csv: the game day of a (season, week, team)
GameDay(season, week, team) ==
    IF week = 1 /\ team \in {"A", "B"} THEN {Date(season, 9, 10)} ELSE {}

\* the day number of a date (proleptic Gregorian calendar)
Days(date) ==
    LET y == IF date.month <= 2 THEN date.year - 1 ELSE date.year
        m == IF date.month > 2 THEN date.month - 3 ELSE date.month + 9
    IN  365 * y + (y \div 4) - (y \div 100) + (y \div 400)
            + ((153 * m + 2) \div 5) + date.day - 1

\* (days / 365.25).round(3), in thousandths of a year
Rounded(days) == (days * 8000 + 1461) \div 2922

\* import_weekly_rosters after __import_rosters returned r and games.csv was read
weekly_rosters(r) ==
    IF r.error # "none" THEN r
    ELSE IF ~({"season", "week", "team"} \subseteq r.cols)
    THEN [error |-> "KeyError", cols |-> {}, rows |-> << >>]
    ELSE IF "birth_date" \notin r.cols
    THEN [error |-> "AttributeError", cols |-> {}, rows |-> << >>]
    ELSE [error |-> "none", cols |-> r.cols \cup {"age"},
          rows |-> [k \in 1..Len(r.rows) |->
              LET row == r.rows[k]
                  day == GameDay(row.season, row.week, row.team)
              IN  WithColumn(row, "age",
                      IF day = {} THEN NaNValue
                      ELSE [kind |-> "num",
                            n |-> Rounded(Days(CHOOSE g \in day : TRUE)
                                            - Days(row.birth_date)),
                            d |-> 1000])]]

import_weekly_rosters(years, columns) ==
    RosterCall([op |-> "import_weekly_rosters", years |-> years,
                columns |-> columns], years, columns,
               weekly_rosters(import_rosters(years, columns)))

\* --------------------------------------------------------------- qbr
QbrMinYear == 2006
MaxQbrRows == 2
QbrSeasons == {2006, 2008, 2010}
\* the seasons of the rows of the csv file, in file order
QbrTables == UNION {[1..n -> QbrSeasons] : n \in 1..MaxQbrRows}
Levels == {"nfl", "college", "xfl"}
Frequencies == {"season", "weekly", "monthly"}

\* pandas.read_csv(url)
qbr_file(level, frequency) ==
    [k \in 1..Len(qbr) |-> [season |-> qbr[k], rank |-> k]]

Max(years) == CHOOSE y \in {years[k] : k \in 1..Len(years)} :
                 \A k \in 1..Len(years) : years[k] <= y

\* df['season'].between(min(years), max(years))
between(v, lo, hi) == lo <= v /\ v <= hi

MemberOf(v, years) == \E k \in 1..Len(years) : years[k] = v

\* df[df['season'].between(min(years), max(years))] when years is not empty
QbrFilter(df, years) ==
    IF Len(years) > 0
    THEN LET Within(row) == between(row.season, Min(years), Max(years))
         IN  SelectSeq(df, Within)
    ELSE df

\* The call as one step; given = FALSE is the call that omits years
import_qbr(given, years, level, frequency) ==
    LET a == [op |-> "import_qbr", years |-> years, years_given |-> given,
              level |-> level, frequency |-> frequency]
        rejected == \/ (Len(years) > 0 /\ Min(years) < QbrMinYear)
                    \/ level \notin {"nfl", "college"}
                    \/ frequency \notin {"season", "weekly"}
    IN  /\ pc = "idle"
        /\ ~given => years = << >>
        /\ pc' = "done"
        /\ args' = a
        /\ \E fetch \in {"ok", "fail"} :
              /\ rejected => fetch = "ok"
              /\ prim' = IF rejected THEN << >> ELSE << fetch >>
              /\ outcome' = IF rejected THEN "ValueError"
                            ELSE IF fetch = "fail" THEN "FetchError" ELSE "table"
              /\ result' = IF rejected \/ fetch = "fail" THEN << >>
                           ELSE QbrFilter(qbr_file(level, frequency), years)
        /\ sec' = << >>
        /\ UNCHANGED << replaced, roster, qbr, player_stats, platform, location, fs, idx, pbp_data, fpath,
                        futures, taken, raised, notices, reads, writes >>

\* ------------------------------------------------------ specifications
Platforms == {"posix", "windows"}

Init ==
    /\ replaced = << >>
    /\ roster = << >>
    /\ qbr = << >>
    /\ player_stats = << >>
    /\ platform \in Platforms
    /\ location \in AltPaths
    /\ fs = [d \in Dirs |-> NoDir]
    /\ pc = "idle"
    /\ args = NoArgs
    /\ idx = 1
    /\ pbp_data = << >>
    /\ fpath = Unset
    /\ futures = << >>
    /\ taken = {}
    /\ raised = FALSE
    /\ outcome = "none"
    /\ result = << >>
    /\ prim = << >>
    /\ sec = << >>
    /\ notices = << >>
    /\ reads = 0
    /\ writes = 0

\* The network importers: import_pbp_data without cache, and the importers
\* that fail hard
Around(minimum) == {minimum - 1, minimum, minimum + 1}

CallPbp ==
    /\ pc = "idle"
    /\ \E years \in YearSeqs(YearDomain), columns \in ColumnChoices,
          include_participation \in BOOLEAN, downcast \in BOOLEAN,
          thread_requests \in BOOLEAN :
           import_pbp_data(years, columns, include_participation, downcast,
                           FALSE, NoPath, thread_requests)

CallHard ==
    /\ pc = "idle"
    /\ \/ \E years \in YearSeqs(Around(MinYear)), columns \in DatasetColumnChoices,
             downcast \in BOOLEAN, thread_requests \in BOOLEAN :
              import_weekly_data(years, columns, downcast, thread_requests)
       \/ \E years \in YearSeqs(Around(FtnMinYear)), columns \in FtnColumnChoices,
             downcast \in BOOLEAN, thread_requests \in BOOLEAN :
              import_ftn_data(years, columns, downcast, thread_requests)
       \/ \E years \in YearSeqs(Around(DepthChartsMinYear)) : import_depth_charts(years)
       \/ \E years \in YearSeqs(Around(InjuriesMinYear)) : import_injuries(years)
       \/ \E years \in YearSeqs(Around(SnapCountsMinYear)) : import_snap_counts(years)

PbpSteps ==
    \/ import_pbp_data_fetch
    \/ \E k \in 1..Len(futures) : import_pbp_data_task(k)
    \/ \E k \in 1..Len(futures) : import_pbp_data_collect(k)
    \/ import_pbp_data_raise
    \/ import_pbp_data_return

HardSteps ==
    \/ import_fetch
    \/ \E k \in 1..Len(futures) : import_task(k)
    \/ \E k \in 1..Len(futures) : import_collect(k)
    \/ import_raise
    \/ import_return

CacheSteps ==
    \/ cache_pbp_year
    \/ cache_pbp_return
    \/ import_pbp_data_cached

NextFetch ==
    \/ CallPbp
    \/ CallHard
    \/ PbpSteps
    \/ HardSteps
    \/ Continue

InitFetch == Init /\ platform = "posix" /\ location = NoPath

SpecFetch == InitFetch /\ [][NextFetch]_vars

\* The same, with the thread pool's guarantee: a worker thread runs every task
\* that was submitted (ThreadPoolExecutor cancels nothing, and leaving the
\* with-block is shutdown(wait=True))
RunTask(k) ==
    /\ k \in 1..Len(futures)
    /\ (import_pbp_data_task(k) \/ import_task(k))

PoolFairness == \A k \in 1..MaxYears : WF_vars(RunTask(k))

SpecPool == InitFetch /\ [][NextFetch]_vars /\ PoolFairness

\* cache_pbp and import_pbp_data(cache=True) on one file system, every call
\* of a behaviour passing the same alt_path
CacheColumnChoices == {{}, {"epa"}}

CallCache ==
    /\ pc = "idle"
    /\ \E years \in YearSeqs(YearDomain), downcast \in BOOLEAN :
           cache_pbp(years, downcast, location)

CallCached ==
    /\ pc = "idle"
    /\ \E years \in YearSeqs(YearDomain), columns \in CacheColumnChoices,
          include_participation \in BOOLEAN, thread_requests \in BOOLEAN :
           import_pbp_data(years, columns, include_participation, TRUE,
                           TRUE, location, thread_requests)

NextCache ==
    \/ CallCache
    \/ CallCached
    \/ CacheSteps
    \/ import_pbp_data_return
    \/ Continue

SpecCache == Init /\ [][NextCache]_vars

\* Every importer together, on few inputs: one year below the minimum of
\* 1999 and one above it
FewYears == {1998, 2020}

CallAny ==
    /\ pc = "idle"
    /\ \/ \E years \in YearSeqs(FewYears), include_participation \in BOOLEAN,
             downcast \in BOOLEAN, cache \in BOOLEAN, thread_requests \in BOOLEAN :
              import_pbp_data(years, {}, include_participation, downcast, cache,
                              location, thread_requests)
       \/ \E years \in YearSeqs(FewYears), downcast \in BOOLEAN :
              cache_pbp(years, downcast, location)
       \/ \E years \in YearSeqs(FewYears), downcast \in BOOLEAN,
             thread_requests \in BOOLEAN :
              import_weekly_data(years, {}, downcast, thread_requests)

Next ==
    \/ CallAny
    \/ PbpSteps
    \/ HardSteps
    \/ CacheSteps
    \/ Continue

Spec == Init /\ [][Next]_vars

\* import_seasonal_data over every table of weekly rows
SeasonalYears == {<< 1998 >>, << 2020 >>, << 2020, 2021 >>}
SeasonalTypes == {"REG", "POST", "ALL", "PRE"}

CallSeasonal ==
    \E years \in SeasonalYears, s_type \in SeasonalTypes :
        import_seasonal_data(years, s_type)

NextSeasonal ==
    \/ CallSeasonal
    \/ Continue

InitSeasonal ==
    /\ replaced = << >>
    /\ roster = << >>
    /\ qbr = << >>
    /\ player_stats \in WeeklyTables
    /\ platform = "posix"
    /\ location = NoPath
    /\ fs = [d \in Dirs |-> NoDir]
    /\ pc = "idle"
    /\ args = NoArgs
    /\ idx = 1
    /\ pbp_data = << >>
    /\ fpath = Unset
    /\ futures = << >>
    /\ taken = {}
    /\ raised = FALSE
    /\ outcome = "none"
    /\ result = << >>
    /\ prim = << >>
    /\ sec = << >>
    /\ notices = << >>
    /\ reads = 0
    /\ writes = 0

SpecSeasonal == InitSeasonal /\ [][NextSeasonal]_vars

\* The roster importers over every table of roster rows
RosterYears == {<< 1998 >>, << 2020 >>, << 2020, 2021 >>}

CallRosters ==
    \E years \in RosterYears, columns \in RosterColumnChoices :
        \/ import_seasonal_rosters(years, columns)
        \/ import_weekly_rosters(years, columns)

NextRosters ==
    \/ CallRosters
    \/ Continue

InitRosters ==
    /\ replaced = << >>
    /\ roster \in RosterTables
    /\ qbr = << >>
    /\ player_stats = << >>
    /\ platform = "posix"
    /\ location = NoPath
    /\ fs = [d \in Dirs |-> NoDir]
    /\ pc = "idle"
    /\ args = NoArgs
    /\ idx = 1
    /\ pbp_data = << >>
    /\ fpath = Unset
    /\ futures = << >>
    /\ taken = {}
    /\ raised = FALSE
    /\ outcome = "none"
    /\ result = << >>
    /\ prim = << >>
    /\ sec = << >>
    /\ notices = << >>
    /\ reads = 0
    /\ writes = 0

SpecRosters == InitRosters /\ [][NextRosters]_vars

\* import_qbr over every csv file
QbrYears == {<< >>, << 2005 >>, << 2008 >>, << 2006, 2010 >>, << 2010, 2006 >>}

CallQbr ==
    \E given \in BOOLEAN, years \in QbrYears, level \in Levels,
       frequency \in Frequencies :
        import_qbr(given, years, level, frequency)

NextQbr ==
    \/ CallQbr
    \/ Continue

InitQbr ==
    /\ replaced = << >>
    /\ roster = << >>
    /\ qbr \in QbrTables
    /\ player_stats = << >>
    /\ platform = "posix"
    /\ location = NoPath
    /\ fs = [d \in Dirs |-> NoDir]
    /\ pc = "idle"
    /\ args = NoArgs
    /\ idx = 1
    /\ pbp_data = << >>
    /\ fpath = Unset
    /\ futures = << >>
    /\ taken = {}
    /\ raised = FALSE
    /\ outcome = "none"
    /\ result = << >>
    /\ prim = << >>
    /\ sec = << >>
    /\ notices = << >>
    /\ reads = 0
    /\ writes = 0

SpecQbr == InitQbr /\ [][NextQbr]_vars

\* ------------------------------------------------------------ the claims
Positions == 1..Len(args.years)
Running == pc # "idle"
Done == pc = "done"
Pbp == args.op = "import_pbp_data"
ValidCall == Done /\ outcome # "ValueError"

\* C1: a years collection holding a year below 1999 at any position makes
\* import_pbp_data, cache_pbp and import_weekly_data raise ValueError, and no
\* fetch, no task, no cache read and no cache write is issued for any year.
BelowMinimum == \E k \in Positions : args.years[k] < MinYear

NothingIssued ==
    /\ \A k \in Positions : prim[k] = "none" /\ sec[k] = "none"
    /\ futures = << >>
    /\ pbp_data = << >>
    /\ reads = 0
    /\ writes = 0

AllFetched ==
    \A k \in Positions : prim[k] = "ok" /\ sec[k] \in {"ok", "none"}

Agrees(row, src) ==
    \A c \in (DOMAIN row \cap DOMAIN src) \ {"season"} : row[c].v = src[c].v

C2_EveryYearReturned ==
    (ValidCall /\ Pbp /\ ~args.cache /\ AllFetched)
    => /\ outcome = "table"
       /\ Len(result) >= Len(args.years) * MaxRows
       /\ \A k \in Positions : \A i \in 1..MaxRows :
            \E j \in 1..Len(result) :
                Agrees(result[j], play_by_play(args.years[k])[i])

\* C3: with the same years, columns and include_participation and no fetch
\* failing, import_pbp_data returns with thread_requests=True the table it
\* returns with thread_requests=False.
SequentialPlays(a) ==
    LET columns == EffectiveColumns(a.columns, a.include_participation)
        load == [k \in 1..Len(a.years) |->
                    LoadYear(Prune(play_by_play(a.years[k]), columns),
                             a.years[k], a, "ok")]
        kept == SelectSeq(load, LAMBDA l : l.ok)
    IN  Plays([k \in 1..Len(kept) |-> kept[k].raw], a.downcast)

C3_ThreadedEqualsSequential ==
    (Done /\ Pbp /\ ~args.cache /\ args.thread_requests /\ outcome = "table")
    => result = SequentialPlays(args)

\* the sequential run of the model is what SequentialPlays computes
SequentialPlaysIsSequential ==
    (Done /\ Pbp /\ ~args.cache /\ ~args.thread_requests /\ outcome = "table"
        /\ AllFetched)
    => result = SequentialPlays(args)

\* C4: every row import_pbp_data returns carries a season field equal to the
\* requested year the row was loaded for, in every mode and for every filter.
SeasonsLoaded ==
    Flatten([k \in 1..Len(pbp_data) |->
                [i \in 1..Len(pbp_data[k].df) |-> args.years[pbp_data[k].pos]]])

C4_SeasonTagged ==
    (Done /\ Pbp /\ outcome = "table")
    => /\ Len(result) = Len(SeasonsLoaded)
       /\ \A j \in 1..Len(result) :
            /\ "season" \in DOMAIN result[j]
            /\ result[j]["season"] = Int64(SeasonsLoaded[j])

\* C5: import_pbp_data (network), threaded or not, never raises on a failed
\* primary fetch: it emits one notice per failed year and returns a table
\* whose distinct seasons are exactly the years whose fetch succeeded.  Stated
\* for include_participation=False, where primary fetches are the only ones.
Seasons(t) ==
    {t[j]["season"].v : j \in {i \in 1..Len(t) : "season" \in DOMAIN t[i]}}

C5_SoftFailure ==
    (ValidCall /\ Pbp /\ ~args.cache /\ ~args.include_participation)
    => /\ outcome = "table"
       /\ Len(notices) = Cardinality({k \in Positions : prim[k] = "fail"})
       /\ Seasons(result) = {args.years[k] : k \in {j \in Positions : prim[j] = "ok"}}

\* C6: in import_weekly_data and import_ftn_data (sequential and threaded) and
\* the depth-chart, injury and snap-count importers, once the fetch of any
\* requested year has failed the call returns no table, the years fetched
\* successfully included, and it ends by raising the failure.
SomeFetchFailed == \E k \in Positions : prim[k] = "fail"

Fetched(k) ==
    IF Pbp
    THEN Prune(play_by_play(args.years[k]),
               EffectiveColumns(args.columns, args.include_participation))
    ELSE IF args.thread_requests
    THEN Prune(dataset_file(args.years[k]), ReadColumns(args))
    ELSE ReadSequential(args, args.years[k])

Sequential == Pbp /\ ~args.thread_requests

YearTable(k) ==
    IF Sequential THEN LoadYear(Fetched(k), args.years[k], args, sec[k]).raw
    ELSE Fetched(k)

Kept(k) ==
    /\ prim[k] = "ok"
    /\ Sequential => LoadYear(Fetched(k), args.years[k], args, sec[k]).ok

InRequestedOrder ==
    LET kept == SelectSeq([k \in Positions |-> k], Kept)
        tables == [j \in 1..Len(kept) |-> YearTable(kept[j])]
    IN  IF Pbp THEN Plays(tables, args.downcast) ELSE Imported(args, tables)

C7_RequestedOrder ==
    /\ (pc = "tasks") =>
          \A k \in 1..Len(pbp_data) :
              ~pbp_data[k].none => pbp_data[k].df = YearTable(k)
    /\ (Done /\ args.op \in HardOps \cup {"import_pbp_data"} /\ outcome = "table")
          => result = InRequestedOrder

\* the task of the second year has completed and been collected first
C7_Witness ==
    /\ pc = "tasks" /\ Len(args.years) = 2 /\ args.years[1] # args.years[2]
    /\ taken = {2}
    /\ pbp_data[1].none /\ ~pbp_data[2].none

\* C8: in import_pbp_data without cache, for every year whose primary fetch
\* succeeded: without include_participation no secondary fetch is issued and
\* the year's rows have no participation column; with it and the participation
\* file unavailable (HTTPError) all the year's rows are returned without
\* participation columns; with it available every primary row is returned,
\* carrying the participation of its play or NaN when it has none.
ParticOnly == {"nflverse_game_id", "offense_players", "old_game_id_x", "old_game_id_y"}

HasFrame(k) == \E j \in 1..Len(pbp_data) : ~pbp_data[j].none /\ pbp_data[j].pos = k

FrameOf(k) ==
    pbp_data[CHOOSE j \in 1..Len(pbp_data) :
                 ~pbp_data[j].none /\ pbp_data[j].pos = k].df

Unjoined(k) ==
    /\ HasFrame(k)
    /\ Len(FrameOf(k)) = MaxRows
    /\ ColumnsOf(FrameOf(k)) \cap ParticOnly = {}

Joined(k) ==
    /\ HasFrame(k)
    /\ Len(FrameOf(k)) = MaxRows
    /\ \A i \in 1..MaxRows :
          /\ "offense_players" \in DOMAIN FrameOf(k)[i]
          /\ FrameOf(k)[i]["offense_players"] =
                IF i \in 1..(MaxRows - 1)
                THEN pbp_participation(args.years[k])[i]["offense_players"]
                ELSE NaN

C8_Participation ==
    (Done /\ Pbp /\ ~args.cache /\ outcome = "table")
    => \A k \in Positions :
          prim[k] = "ok" =>
             /\ ~args.include_participation => sec[k] = "none" /\ Unjoined(k)
             /\ (args.include_participation /\ sec[k] = "http") => Unjoined(k)
             /\ (args.include_participation /\ sec[k] = "ok") => Joined(k)

\* C9: when cache_pbp(years, alt_path=p) has written the partition of every
\* requested year, import_pbp_data(years, cache=True, alt_path=p), p omitted
\* in both calls included, raises no cache miss and returns a non-empty table
\* with, for each year, the rows of a network fetch of that year.
CachedOk(year) == fs[cache_path(location)].season[year].files # << >>

RowsOfSeason(t, year) ==
    Cardinality({j \in 1..Len(t) : "season" \in DOMAIN t[j]
                                    /\ t[j]["season"].v = year})

Occurrences(year) == Cardinality({k \in Positions : args.years[k] = year})

C9_CacheRoundTrip ==
    (ValidCall /\ Pbp /\ args.cache /\ \A k \in Positions : CachedOk(args.years[k]))
    => /\ outcome = "table"
       /\ result # << >>
       /\ \A k \in Positions :
             RowsOfSeason(result, args.years[k])
                = Len(play_by_play(args.years[k])) * Occurrences(args.years[k])

\* C10: import_pbp_data(cache=True) raises the cache-miss error and returns no
\* table whenever the directory season=<year> is absent for a requested year,
\* at any position of the collection.
PartitionAbsent(year) == ~fs[import_dpath(args.alt_path)].season[year].isdir

C10_CacheMiss ==
    (ValidCall /\ Pbp /\ args.cache /\ \E k \in Positions : PartitionAbsent(args.years[k]))
    => outcome = "CacheMiss" /\ result = << >>

\* C11: during and after cache_pbp(years), the partition of every requested
\* year holds one file per fetch of that year this call has completed, each
\* with exactly the fetched rows in the float width this call asked for, and
\* nothing an earlier call wrote; no step of the call changes the partition
\* of a year that is not in the collection.
Caching == Running /\ args.op = "cache_pbp" /\ outcome # "ValueError"

WrittenBy(year) ==
    {k \in 1..(idx - 1) : /\ args.years[k] = year
                          /\ prim[k] = "ok" /\ sec[k] \in {"ok", "none"}}

FetchedRows(file, year, downcast) ==
    /\ Len(file) = Len(play_by_play(year))
    /\ \A i \in 1..Len(file) :
          /\ PrimaryCols \ {"season"} \subseteq DOMAIN file[i]
          /\ Agrees(file[i], play_by_play(year)[i])
          /\ file[i]["epa"].dt = IF downcast THEN "float32" ELSE "float64"

C11_OnlyThisCall ==
    Caching =>
       \A year \in Requested(args.years) :
          LET files == fs[cache_path(args.alt_path)].season[year].files
          IN  /\ Len(files) = Cardinality(WrittenBy(year))
              /\ \A j \in 1..Len(files) : FetchedRows(files[j], year, args.downcast)

C11_OthersUntouched ==
    (args'.op = "cache_pbp") =>
       \A d \in Dirs : \A year \in YearDomain \ Requested(args'.years) :
          fs'[d].season[year] = fs[d].season[year]

C11_PartitionReplaced == [] C11_OnlyThisCall /\ [][C11_OthersUntouched]_vars

\* 2020 is cached again, in a directory that already held the partitions of
\* 2015 and of 2020: the old file of 2020 was removed and one was written
C11_Witness ==
    /\ Done /\ args.op = "cache_pbp" /\ args.years = << 2020 >>
    /\ prim = << "ok" >> /\ sec = << "ok" >>
    /\ fs[cache_path(args.alt_path)].season[2015].files # << >>
    /\ writes >= 2

\* C12: a call of import_pbp_data with cache=True never issues a network
\* fetch, of a play-by-play file or of a participation file, and never
\* submits a task to the thread pool, whatever thread_requests and
\* include_participation are.
C12_NoNetworkWhenCached ==
    (Running /\ Pbp /\ args.cache)
    => /\ \A k \in Positions : prim[k] = "none" /\ sec[k] = "none"
       /\ futures = << >>

\* a cached call asking for threads and participation has returned rows
C12_Witness ==
    /\ Done /\ Pbp /\ args.cache
    /\ args.thread_requests /\ args.include_participation
    /\ outcome = "table" /\ result # << >>
    /\ reads = Len(args.years)

\* C13: the table import_seasonal_data returns has exactly one row for every
\* (player_id, season) with a weekly row passing the season-type filter, and
\* no row for any other pair, for REG, POST and ALL alike.
Seasonal == args.op = "import_seasonal_data"
Rolled == Done /\ Seasonal /\ outcome = "table"

WeeklyRead == Flatten([k \in Positions |-> player_stats_file(args.years[k])])

Passing ==
    SelectSeq(WeeklyRead,
              LAMBDA r : args.s_type = "ALL" \/ r.season_type = args.s_type)

PassingOf(player, season) ==
    SelectSeq(Passing, LAMBDA r : r.player_id = player /\ r.season = season)

Pairs == {<< Passing[k].player_id, Passing[k].season >> : k \in 1..Len(Passing)}

RowsFor(pair) ==
    {j \in 1..Len(result) : result[j].player_id = pair[1] /\ result[j].season = pair[2]}

C13_OneRowPerPlayerSeason ==
    Rolled =>
       /\ \A pair \in Pairs : Cardinality(RowsFor(pair)) = 1
       /\ \A j \in 1..Len(result) :
             << result[j].player_id, result[j].season >> \in Pairs

\* C14: every summed column of a row import_seasonal_data returns equals the
\* sum of that column over all weekly rows of the row's player and season
\* that pass the filter (REG and POST rows together under ALL).
C14_VolumeSums ==
    Rolled =>
       \A j \in 1..Len(result) :
          LET rows == PassingOf(result[j].player_id, result[j].season)
          IN  /\ result[j].targets = SumOf(rows, "targets")
              /\ result[j].attempts = SumOf(rows, "attempts")

\* C15: a ratio metric of import_seasonal_data whose summed denominator is
\* zero is NaN, whether its numerator is zero or not.  Stated for tgt_sh,
\* whose denominator is the sum, over the player's passing rows, of the
\* attempts of the row's team in the row's week.
TeamAttempts(r) ==
    IF r.recent_team = NA THEN 0
    ELSE SumOf(SelectSeq(Passing, LAMBDA q : /\ q.recent_team = r.recent_team
                                              /\ q.season = r.season
                                              /\ q.week = r.week),
               "attempts")

RECURSIVE Denominator(_)
Denominator(rows) ==
    IF rows = << >> THEN 0
    ELSE TeamAttempts(Head(rows)) + Denominator(Tail(rows))

C15_ZeroDenominatorIsNaN ==
    Rolled =>
       \A j \in 1..Len(result) :
          Denominator(PassingOf(result[j].player_id, result[j].season)) = 0
             => result[j].tgt_sh = NaNValue

\* C16: the table import_pbp_data and import_weekly_data return, and every
\* file cache_pbp writes, is the table before the downcast step with every
\* float64 cell turned into float32 when downcast is set, and that very table
\* when it is not; integer, string and float32 cells keep their type, no
\* float64 is left after a downcast, and downcasting the outcome once more
\* changes nothing.
Cast(cell, downcast) ==
    IF downcast /\ cell.dt = "float64" THEN [dt |-> "float32", v |-> cell.v]
    ELSE cell

DowncastOf(before, after, downcast) ==
    /\ Len(after) = Len(before)
    /\ \A k \in 1..Len(after) :
          /\ DOMAIN after[k] = DOMAIN before[k]
          /\ \A c \in DOMAIN after[k] : after[k][c] = Cast(before[k][c], downcast)

NoFloat64(t) == \A k \in 1..Len(t) : \A c \in DOMAIN t[k] : t[k][c].dt # "float64"

Narrowed(before, after, downcast) ==
    /\ DowncastOf(before, after, downcast)
    /\ downcast => NoFloat64(after) /\ Downcast(after) = after

BeforeDowncast ==
    IF Pbp THEN concat(Frames(pbp_data))
    ELSE Prune(concat(Frames(pbp_data)), args.columns)

OtherModeRead(k) ==
    IF args.thread_requests THEN ReadSequential(args, args.years[k])
    ELSE Prune(dataset_file(args.years[k]),
               IF args.op = "import_weekly_data" THEN args.columns
               ELSE ReadColumns(args))

C17_ThreadedEqualsSequential ==
    (Done /\ args.op \in Threaded /\ outcome = "table")
    => result = Imported(args, [k \in Positions |-> OtherModeRead(k)])

\* C18: a malformed argument makes the call fail before any fetch is issued
\* and never leads to a returned table.  Stated for import_pbp_data given
\* columns='epa', a string where a list of column names is expected.
MalformedColumns == args.columns = Characters

C18_MalformedRejected ==
    (Running /\ Pbp /\ MalformedColumns)
    => /\ outcome # "table"
       /\ futures = << >>
       /\ \A k \in Positions : prim[k] = "none" /\ sec[k] = "none"

\* C19: given a non-empty columns list, import_pbp_data returns a table with
\* no column the caller did not ask for, with and without
\* include_participation.
C19_OnlyRequestedColumns ==
    (Done /\ Pbp /\ outcome = "table" /\ args.columns # {})
    => ColumnsOf(result) \subseteq args.columns

\* C20: in cache_pbp, a year from 2016 on whose play-by-play fetch succeeded
\* and whose participation fetch failed still has its primary rows written to
\* the partition of that year.
PrimaryRowsCached(year) ==
    LET files == fs[cache_path(args.alt_path)].season[year].files
    IN  \E j \in 1..Len(files) :
           /\ Len(files[j]) = Len(play_by_play(year))
           /\ \A i \in 1..Len(files[j]) : Agrees(files[j][i], play_by_play(year)[i])

C20_ParticipationOptional ==
    (Done /\ args.op = "cache_pbp" /\ outcome = "None")
    => \A k \in Positions :
          (args.years[k] >= ParticMinYear /\ prim[k] = "ok" /\ sec[k] = "fail")
             => PrimaryRowsCached(args.years[k])

\* ---- rosters
SeasonalRosters == Done /\ args.op = "import_seasonal_rosters"
WeeklyRosters == Done /\ args.op = "import_weekly_rosters"

\* the age in completed years on September 1 of the season: the birthday of
\* the season's year has been reached when it falls on or before that day
CompletedYears(season, birth_date) ==
    season - birth_date.year
        - (IF birth_date.month < SeasonStartMonth
              \/ (birth_date.month = SeasonStartMonth
                    /\ birth_date.day <= SeasonStartDay)
           THEN 0 ELSE 1)

Aged == SeasonalRosters /\ outcome = "table" /\ "birth_date" \in args.columns.names

\* C21: in the table import_seasonal_rosters returns, the age of every row is
\* the player's age in completed years on September 1 of the row's season.
C21_AgeAtSeasonStart ==
    (SeasonalRosters /\ outcome = "table") =>
        \A k \in 1..Len(result) :
            "age" \in DOMAIN result[k] =>
                result[k].age = CompletedYears(result[k].season, result[k].birth_date)

\* a player born on September 1 is returned with an age one year short
C21_Counterexample ==
    /\ SeasonalRosters
    /\ outcome = "table"
    /\ \E k \in 1..Len(result) :
          /\ "age" \in DOMAIN result[k]
          /\ result[k].birth_date.month = SeasonStartMonth
          /\ result[k].birth_date.day = SeasonStartDay
          /\ result[k].age = CompletedYears(result[k].season, result[k].birth_date) - 1

\* ---- qbr
Qbr == Done /\ args.op = "import_qbr"

\* C22: import_qbr with a non-empty years list returns exactly the rows of the
\* file whose season is a member of years; with years omitted or empty it
\* returns every row.
C22_RowsOfRequestedYears ==
    (Qbr /\ outcome = "table") =>
        LET df == qbr_file(args.level, args.frequency)
            Requested_(row) == MemberOf(row.season, args.years)
        IN  result = IF Len(args.years) > 0 THEN SelectSeq(df, Requested_) ELSE df

\* a row of a season between two requested years, itself not requested, is returned
C22_Counterexample ==
    /\ Qbr
    /\ outcome = "table"
    /\ Len(args.years) > 0
    /\ \E k \in 1..Len(result) : ~MemberOf(result[k].season, args.years)

\* ---- roster columns
ExistingColumns ==
    /\ args.columns.given
    /\ args.columns.names # {}
    /\ args.columns.names \subseteq RosterColumns

\* C23: import_seasonal_rosters and import_weekly_rosters, called with valid
\* years and a non-empty list of existing column names, return (every read
\* succeeding) a table that contains every requested column.
C23_AnyColumnsAccepted ==
    ((SeasonalRosters \/ WeeklyRosters) /\ ExistingColumns
        /\ outcome \notin {"ValueError", "FetchError"}) =>
        /\ outcome = "table"
        /\ \A k \in 1..Len(result) : args.columns.names \subseteq DOMAIN result[k]

\* a list that leaves out player_id makes import_seasonal_rosters raise
C23_Counterexample ==
    /\ SeasonalRosters
    /\ ExistingColumns
    /\ "player_id" \notin args.columns.names
    /\ outcome = "KeyError"

\* ---- target share and games
TeamsOf(rows) == {rows[k].recent_team : k \in 1..Len(rows)} \ {NA}
Tagged(rows) == SelectSeq(rows, LAMBDA r : r.season_type # NA)

\* C24: the target share of a (player, season) is the sum of the player's
\* targets over the rows passing the filter, divided by the sum over those rows
\* of the attempts of all players of the row's team in the row's (season, week),
\* a row without a team aggregate counting zero.
C24_TargetShare ==
    Rolled =>
       \A j \in 1..Len(result) :
          LET rows == PassingOf(result[j].player_id, result[j].season)
          IN  result[j].tgt_sh = Quotient(SumOf(rows, "targets"), Denominator(rows))

\* one team-week with a passer of 100 attempts and a receiver of 20 targets:
\* the receiver's target share is 20/100
C24_Witness ==
    /\ Rolled
    /\ \E j \in 1..Len(result) :
          LET rows == PassingOf(result[j].player_id, result[j].season)
          IN  /\ Len(rows) = 1
              /\ SumOf(rows, "targets") = 20
              /\ TeamAttempts(rows[1]) = 100
              /\ result[j].tgt_sh = Quotient(20, 100)

\* C26: the games value of a (player, season) is the number of weekly rows of
\* that player and season that pass the season-type filter and carry a
\* season-type tag.
C26_Games ==
    Rolled =>
       \A j \in 1..Len(result) :
          result[j].games =
              Len(Tagged(PassingOf(result[j].player_id, result[j].season)))

\* a player with a tagged and an untagged row in one season, counted once
C26_Witness ==
    /\ Rolled
    /\ \E j \in 1..Len(result) :
          LET rows == PassingOf(result[j].player_id, result[j].season)
          IN  /\ Len(rows) > Len(Tagged(rows))
              /\ result[j].games = 1

\* ---- participation in cache_pbp
\* the participation rows of the play and game of a primary row
SamePlay(year, l) ==
    SelectSeq(pbp_participation(year),
              LAMBDA r : r["play_id"] = l["play_id"]
                            /\ r["old_game_id"] = l["old_game_id"])

\* a cached row: the primary row, and from 2016 on the columns of the
\* participation row of the same play and game (missing when there is none)
CachedRow(year, l, r, hit, downcast) ==
    [c \in (IF year >= ParticMinYear
            THEN PrimaryCols \cup ParticCols ELSE PrimaryCols) \ {"season"} |->
        IF c \in PrimaryCols THEN Cast(l[c], downcast)
        ELSE IF hit THEN Cast(r[c], downcast) ELSE NaN]

ExpectedFile(year, downcast) ==
    Flatten([i \in 1..Len(play_by_play(year)) |->
        LET l == play_by_play(year)[i]
            hits == SamePlay(year, l)
        IN  IF year < ParticMinYear \/ hits = << >>
            THEN << CachedRow(year, l, l, FALSE, downcast) >>
            ELSE [j \in 1..Len(hits) |-> CachedRow(year, l, hits[j], TRUE, downcast)]])

\* C25: cache_pbp fetches the participation file of a year exactly when the
\* year is 2016 or later (and its primary fetch succeeded); a year before 2016
\* is cached with its primary rows only, a later year with each row joined to
\* the participation row that agrees on play_id and old_game_id together.
C25_ParticipationFrom2016 ==
    Caching =>
       /\ \A k \in 1..(idx - 1) :
             /\ (sec[k] # "none") <=> (prim[k] = "ok" /\ args.years[k] >= ParticMinYear)
             /\ args.years[k] < ParticMinYear => sec[k] = "none"
       /\ \A year \in Requested(args.years) :
             LET files == fs[cache_path(args.alt_path)].season[year].files
             IN  \A j \in 1..Len(files) : files[j] = ExpectedFile(year, args.downcast)

\* one call has cached a year before 2016 without a participation fetch and a
\* year from 2016 on with one
C25_Witness ==
    /\ Done /\ args.op = "cache_pbp" /\ args.years = << 2015, 2020 >>
    /\ prim = << "ok", "ok" >> /\ sec = << "none", "ok" >>
    /\ Len(fs[cache_path(args.alt_path)].season[2015].files) = 1
    /\ Len(fs[cache_path(args.alt_path)].season[2020].files) = 1

\* ---- the slots of threaded mode
InPool == pc = "tasks" \/ (Done /\ futures # << >>)

C27_Slots ==
    InPool =>
       /\ Len(pbp_data) = Len(args.years)
       /\ Len(futures) = Len(args.years)
       /\ \A k \in Positions :
             /\ pbp_data[k] # None =>
                   /\ k \in taken
                   /\ futures[k].st = "ok"
                   /\ pbp_data[k] = Frame(futures[k].df, k)
             /\ (k \in taken /\ futures[k].st = "ok") => pbp_data[k] # None
       /\ (Done /\ outcome = "table") => \A k \in Positions : pbp_data[k] # None

C27_WrittenOnce ==
    (pc = "tasks" /\ pc' # "idle") =>
       \A k \in 1..Len(pbp_data) : pbp_data[k] # None => pbp_data'[k] = pbp_data[k]

\* C27: in threaded mode there is one result slot per position of years from
\* the moment the tasks are issued; a slot holds nothing or the result of the
\* task of its own position, is written once, and every slot is filled when
\* the call returns a table, also when a year is requested twice.
C27_SlotPerPosition == [] C27_Slots /\ [][C27_WrittenOnce]_vars

\* a threaded call for the same year twice has returned a table
C27_Witness ==
    /\ Done /\ InPool /\ outcome = "table"
    /\ args.years = << 2020, 2020 >>
    /\ \A k \in Positions : pbp_data[k] # None /\ pbp_data[k].pos = k

\* ---- no task is cancelled
Issued(k) == pc = "tasks" /\ k \in 1..Len(futures) /\ futures[k].st = "queued"
Finished(k) == pc # "idle" /\ k \in 1..Len(futures) /\ futures[k].st \in {"ok", "fail"}

C28_AllFinishedAtExit ==
    (Done /\ futures # << >>) => \A k \in 1..Len(futures) : futures[k].st # "queued"

\* C28: in threaded mode every task issued runs to completion or raises, also
\* one still queued when a sibling has failed, and the call returns or raises
\* only once every task issued has finished.
C28_NoTaskCancelled ==
    /\ [] C28_AllFinishedAtExit
    /\ \A k \in 1..MaxYears : Issued(k) ~> Finished(k)

\* the call has raised for a failed task, and a task whose result was never
\* collected has run to completion all the same
C28_Witness ==
    /\ Done /\ futures # << >> /\ raised /\ outcome = "FetchError"
    /\ \E k \in 1..Len(futures) : k \notin taken /\ futures[k].st = "ok"

\* ---- reading the cache after failed caching
\* what the loop loads for year from a file of the cache
LoadedFrom(file, year) ==
    LoadYear(Prune(file, EffectiveColumns(args.columns, args.include_participation)),
             year, args, "ok").raw

\* C29: every frame import_pbp_data(cache=True) loads for a requested year
\* holds the rows of a file of the partition season=<year>, whatever calls of
\* cache_pbp came before and whichever of their fetches failed.
C29_RowsOfOwnPartition ==
    (Running /\ Pbp /\ args.cache) =>
       \A j \in 1..Len(pbp_data) :
          LET year == args.years[pbp_data[j].pos]
              files == fs[import_dpath(args.alt_path)].season[year].files
          IN  \E f \in 1..Len(files) : pbp_data[j].df = LoadedFrom(files[f], year)

\* the partition of a year is empty, and the call has returned rows for it
C29_Counterexample ==
    /\ Done /\ Pbp /\ args.cache /\ outcome = "table"
    /\ \E j \in 1..Len(pbp_data) :
          LET year == args.years[pbp_data[j].pos]
              part == fs[import_dpath(args.alt_path)].season[year]
          IN  part.isdir /\ part.files = << >> /\ pbp_data[j].df # << >>

\* ---- a failed re-cache
\* caching of the year failed at every position of it the loop has passed
FailedFor(year) ==
    /\ \E k \in 1..(idx - 1) : args.years[k] = year
    /\ WrittenBy(year) = {}

\* C30: when caching of a year fails inside cache_pbp, the partition of that
\* year is as it was before the call: none of its cached rows is removed.
C30_FailedCachingKeepsPartition ==
    Caching =>
       \A year \in Requested(args.years) :
          FailedFor(year) =>
             fs[cache_path(args.alt_path)].season[year] = replaced.season[year]

\* the re-cache of a cached year has failed and its partition is left empty
C30_Counterexample ==
    /\ Done /\ args.op = "cache_pbp"
    /\ \E year \in Requested(args.years) :
          /\ FailedFor(year)
          /\ replaced.season[year].files # << >>
          /\ fs[cache_path(args.alt_path)].season[year].files = << >>

====
